---- MODULE Spec2Model ----
(***************************************************************************)
(* A model of qaoa_task.py: the layer sweep of GeneratePlot, the circuit   *)
(* construction of Objective / RunCircuit / EvenBlockMoments /             *)
(* OddBlockMoments, the CZ network of the even block, and GridSearch.      *)
(*                                                                         *)
(* Angles are discretised: one unit is 2*pi / AngleSteps, so 2*pi is the   *)
(* integer TwoPi.  Objective values returned by scipy's minimize are drawn *)
(* from 0..MaxFun.  float('inf') is the integer Inf, above every value.    *)
(***************************************************************************)
EXTENDS Integers, Sequences, FiniteSets, TLC

VARIABLES
    \* ---- GeneratePlot ----
    pc,            \* position inside GeneratePlot
    max_L,         \* the parameter max_L (incremented in place at line 86)
    phi,           \* the target state (0 = not yet chosen)
    L,             \* loop variable of "for L in range(2, max_L)" (0 = unbound)
    r,             \* number of restarts done in "for _ in range(10)"
    opt_val,       \* running best of the current layer count
    best_vals,     \* list of per-layer best values
    bounds,        \* bounds list handed to minimize
    start_angles,  \* start vector handed to minimize
    results,       \* every result minimize has returned: layers, fun, target
    visited,       \* the layer counts whose loop body has been entered, in order
    plot_x,        \* first argument of plt.plot
    plot_y,        \* second argument of plt.plot
    \* ---- Objective / RunCircuit ----
    rc_pc,         \* position inside Objective / RunCircuit
    angles,        \* the flat vector given to Objective
    angle_array,   \* the reshaped L x 8 array
    rc_i,          \* loop variable of "for i in range(len(angle_array))"
    circuit,       \* the items appended to the circuit, in order
    \* ---- CZ network of the even block ----
    cz_bits,       \* the computational basis state: bit of qubit j at j+1
    cz_k,          \* number of CZ gates already applied
    cz_sign,       \* accumulated phase of the basis state (+1 / -1)
    \* ---- GridSearch ----
    gs_pc,         \* position inside GridSearch
    center_array,  \* parameter center_array (values doubled)
    width,         \* parameter width
    resolution,    \* parameter resolution
    obj_target,    \* parameter of the Objective callback given to GridSearch
    gs_start,      \* start_angles (values doubled)
    gs_angles,     \* angles: entries are numbers or, after line 74, lists
    gs_opt_val,    \* opt_val
    gs_best,       \* best_angles (<<>> = unbound)
    evaluated      \* the points Objective has been called on

gpVars == <<pc, max_L, phi, L, r, opt_val, best_vals, bounds, start_angles,
            results, visited, plot_x, plot_y>>
rcVars == <<rc_pc, angles, angle_array, rc_i, circuit>>
czVars == <<cz_bits, cz_k, cz_sign>>
gsVars == <<gs_pc, center_array, width, resolution, obj_target, gs_start,
            gs_angles, gs_opt_val, gs_best, evaluated>>
vars == <<gpVars, rcVars, czVars, gsVars>>

\* ---------------------------------------------------------------- bounds
MaxMaxL == 3        \* largest argument of GeneratePlot explored
MaxFun == 1         \* objective values returned by minimize: 0..MaxFun
NumPhi == 2         \* number of distinct target states explored
AngleSteps == 2     \* discretisation of [0, 2*pi]
MaxLayers == 2      \* largest number of layers of a flat vector
MaxDim == 2         \* largest dimension of a GridSearch
MaxWidth == 2       \* largest width of a GridSearch
MaxCenter == 1      \* largest centre coordinate of a GridSearch
MaxTarget == 2      \* largest minimiser of the callback given to GridSearch

\* ------------------------------------------------------ program constants
NumRestarts == 10
NumQubits == 4
Inf == 1000000
TwoPi == AngleSteps

\* ---------------------------------------------------------------- helpers
SeqMin(S) == CHOOSE x \in S : \A y \in S : x <= y

\* range(a, b) as a list
Range(a, b) == [i \in 1..(IF b > a THEN b - a ELSE 0) |-> a + i - 1]


\* ============================================================ GeneratePlot
\* variant: the sweep stops one layer count short
LayerRangeShort(m) == {x \in 2..(m - 2) : TRUE}

\* range(2, max_L) at line 99, as the set of its values
LayerRange(m) == {x \in 2..(m - 1) : TRUE}


\* variant: one bound per qubit and layer instead of one per angle
BoundsPerQubit(l) == [i \in 1..(4 * l) |-> <<0, TwoPi>>]

\* bounds = [(0, 2*math.pi) for i in range(8*L)]
Bounds(l) == [i \in 1..(8 * l) |-> <<0, TwoPi>>]

\* np.random.uniform(low=0, high=2*math.pi, size=(8*L)): samples of [0, 2*pi).
\* The vectors explored are the arithmetic progressions modulo AngleSteps.
Uniform(low, high, size) ==
    {[i \in 1..size |-> low + ((s + k * i) % (high - low))] :
        s \in 0..(high - low - 1), k \in 0..1}


\* variant: the last result replaces the running best unconditionally
NextOptValLast(cur, fun) == fun

\* if opt.fun < opt_val: opt_val = opt.fun
NextOptVal(cur, fun) == IF fun < cur THEN fun ELSE cur

\* Objective evaluates a circuit of len(angles) // 8 layers against phi
ObjectiveLayers(v) == Len(v) \div 8

GP_Init ==
    /\ pc = "start"
    /\ max_L \in 0..MaxMaxL
    /\ phi = 0
    /\ L = 0
    /\ r = 0
    /\ opt_val = Inf
    /\ best_vals = <<>>
    /\ bounds = <<>>
    /\ start_angles = <<>>
    /\ results = {}
    /\ visited = <<>>
    /\ plot_x = <<>>
    /\ plot_y = <<>>
    \* RunCircuit is not running
    /\ rc_pc = "idle" /\ angles = <<>> /\ angle_array = <<>> /\ rc_i = 0
    /\ circuit = <<>>
    \* the CZ network is not running
    /\ cz_bits = <<>> /\ cz_k = 6 /\ cz_sign = 1
    \* GridSearch is not running
    /\ gs_pc = "idle" /\ center_array = <<>> /\ width = 0 /\ resolution = 0
    /\ obj_target = 0 /\ gs_start = <<>> /\ gs_angles = <<>> /\ gs_opt_val = Inf
    /\ gs_best = <<>> /\ evaluated = {}

\* lines 86-97: max_L += 1; phi = random_superposition; best_vals = []
Start ==
    /\ pc = "start"
    /\ max_L' = max_L + 1
    /\ phi' \in 1..NumPhi
    /\ best_vals' = <<>>
    /\ pc' = "for_L"
    /\ UNCHANGED <<L, r, opt_val, bounds, start_angles, results, visited,
                   plot_x, plot_y>>


\* variant: a fresh target state is drawn for every layer count
NextLayerRedraw ==
    /\ pc = "for_L"
    /\ {x \in LayerRange(max_L) : x > L} # {}
    /\ L' = SeqMin({x \in LayerRange(max_L) : x > L})
    /\ phi' \in 1..NumPhi
    /\ bounds' = Bounds(L')
    /\ opt_val' = Inf
    /\ r' = 0
    /\ visited' = Append(visited, L')
    /\ pc' = "for_r"
    /\ UNCHANGED <<max_L, best_vals, start_angles, results, plot_x, plot_y>>

\* lines 99-109: the next L of range(2, max_L); bounds; opt_val = inf
NextLayer ==
    /\ pc = "for_L"
    /\ {x \in LayerRange(max_L) : x > L} # {}
    /\ L' = SeqMin({x \in LayerRange(max_L) : x > L})
    /\ bounds' = Bounds(L')
    /\ opt_val' = Inf
    /\ r' = 0
    /\ visited' = Append(visited, L')
    /\ pc' = "for_r"
    /\ UNCHANGED <<max_L, phi, best_vals, start_angles, results, plot_x, plot_y>>

\* lines 110-111: the next restart draws its start vector
Sample ==
    /\ pc = "for_r"
    /\ r < NumRestarts
    /\ start_angles' \in Uniform(0, TwoPi, 8 * L)
    /\ pc' = "minimize"
    /\ UNCHANGED <<max_L, phi, L, r, opt_val, best_vals, bounds, results,
                   visited, plot_x, plot_y>>

\* lines 112-114: opt = minimize(Objective, start_angles, bounds=bounds)
Minimize ==
    /\ pc = "minimize"
    /\ \E fun \in 0..MaxFun :
          /\ results' = results \cup
                {[layers |-> ObjectiveLayers(start_angles), fun |-> fun,
                  target |-> phi]}
          /\ opt_val' = NextOptVal(opt_val, fun)
    /\ r' = r + 1
    /\ pc' = "for_r"
    /\ UNCHANGED <<max_L, phi, L, best_vals, bounds, start_angles, visited,
                   plot_x, plot_y>>

\* line 115: best_vals.append(opt_val), after the last restart
AppendBest ==
    /\ pc = "for_r"
    /\ r >= NumRestarts
    /\ best_vals' = Append(best_vals, opt_val)
    /\ pc' = "for_L"
    /\ UNCHANGED <<max_L, phi, L, r, opt_val, bounds, start_angles, results,
                   visited, plot_x, plot_y>>

\* lines 117-123: plt.plot([i for i in range(1, max_L)], best_vals).
\* matplotlib raises ValueError when x and y differ in length.
Plot ==
    /\ pc = "for_L"
    /\ {x \in LayerRange(max_L) : x > L} = {}
    /\ plot_x' = Range(1, max_L)
    /\ plot_y' = best_vals
    /\ pc' = IF Len(plot_x') = Len(plot_y') THEN "shown" ELSE "raised"
    /\ UNCHANGED <<max_L, phi, L, r, opt_val, best_vals, bounds, start_angles,
                   results, visited>>

GP_Next ==
    \/ Start /\ UNCHANGED <<rcVars, czVars, gsVars>>
    \/ NextLayer /\ UNCHANGED <<rcVars, czVars, gsVars>>
    \/ Sample /\ UNCHANGED <<rcVars, czVars, gsVars>>
    \/ Minimize /\ UNCHANGED <<rcVars, czVars, gsVars>>
    \/ AppendBest /\ UNCHANGED <<rcVars, czVars, gsVars>>
    \/ Plot /\ UNCHANGED <<rcVars, czVars, gsVars>>

\* ===================================================== Objective / RunCircuit
Moment(ops) == [type |-> "Moment", ops |-> ops]
Operation(op) == [type |-> "Operation", ops |-> <<op>>]
rz(a, q) == [gate |-> "rz", params |-> <<a>>, qubits |-> <<q>>]
rx(a, q) == [gate |-> "rx", params |-> <<a>>, qubits |-> <<q>>]
CZ(a, b) == [gate |-> "CZ", params |-> <<>>, qubits |-> <<a, b>>]

\* cirq.LineQubit.range(4)
test_qubits == [j \in 1..NumQubits |-> j - 1]


\* variant: CZ(q0, q1) is repeated in place of CZ(q2, q3)
EvenBlockMomentsRepeat(qubits, a) ==
    << Moment([i \in 1..4 |-> rz(a[i], qubits[i])]),
       Operation(CZ(qubits[1], qubits[2])),
       Operation(CZ(qubits[1], qubits[3])),
       Operation(CZ(qubits[1], qubits[4])),
       Operation(CZ(qubits[2], qubits[3])),
       Operation(CZ(qubits[2], qubits[4])),
       Operation(CZ(qubits[1], qubits[2])) >>

\* lines 13-21 (Python index i is i + 1 here)
EvenBlockMoments(qubits, a) ==
    << Moment([i \in 1..4 |-> rz(a[i], qubits[i])]),
       Operation(CZ(qubits[1], qubits[2])),
       Operation(CZ(qubits[1], qubits[3])),
       Operation(CZ(qubits[1], qubits[4])),
       Operation(CZ(qubits[2], qubits[3])),
       Operation(CZ(qubits[2], qubits[4])),
       Operation(CZ(qubits[3], qubits[4])) >>

\* lines 26-27
OddBlockMoments(qubits, a) ==
    << Moment([i \in 1..4 |-> rx(a[i], qubits[i])]) >>

\* angles.reshape((rows, cols)), row-major
Reshape(v, rows, cols) ==
    [i \in 1..rows |-> [j \in 1..cols |-> v[(i - 1) * cols + j]]]

\* angle_array[i][:4]
EvenAngles(row) == SubSeq(row, 1, 4)

\* variant: the odd block reuses the first four angles of the row
OddAnglesFirst(row) == SubSeq(row, 1, 4)

\* angle_array[i][4:]
OddAngles(row) == SubSeq(row, 5, Len(row))

\* The flat vectors explored: 8*l entries, all 0 but at most two of them.
FlatVectors ==
    UNION {{[i \in 1..(8 * l) |-> IF i = p THEN v ELSE IF i = q THEN w ELSE 0] :
               p \in 1..(8 * l), q \in 1..(8 * l),
               v \in 0..(TwoPi - 1), w \in 0..(TwoPi - 1)} : l \in 1..MaxLayers}

RC_Init ==
    /\ rc_pc = "objective"
    /\ angles \in FlatVectors
    /\ angle_array = <<>>
    /\ rc_i = 0
    /\ circuit = <<>>
    \* GeneratePlot is not running
    /\ pc = "idle" /\ max_L = 0 /\ phi = 0 /\ L = 0 /\ r = 0 /\ opt_val = Inf
    /\ best_vals = <<>> /\ bounds = <<>> /\ start_angles = <<>> /\ results = {}
    /\ visited = <<>> /\ plot_x = <<>> /\ plot_y = <<>>
    \* the CZ network is not running
    /\ cz_bits = <<>> /\ cz_k = 6 /\ cz_sign = 1
    \* GridSearch is not running
    /\ gs_pc = "idle" /\ center_array = <<>> /\ width = 0 /\ resolution = 0
    /\ obj_target = 0 /\ gs_start = <<>> /\ gs_angles = <<>> /\ gs_opt_val = Inf
    /\ gs_best = <<>> /\ evaluated = {}

\* line 94, then lines 35-36
ObjectiveReshape ==
    /\ rc_pc = "objective"
    /\ angle_array' = Reshape(angles, Len(angles) \div 8, 8)
    /\ circuit' = <<>>
    /\ rc_i' = 0
    /\ rc_pc' = "build"
    /\ UNCHANGED angles

\* lines 37-43: one iteration of the layer loop
RunCircuitLayer ==
    /\ rc_pc = "build"
    /\ rc_i < Len(angle_array)
    /\ circuit' = circuit
           \o EvenBlockMoments(test_qubits, EvenAngles(angle_array[rc_i + 1]))
           \o OddBlockMoments(test_qubits, OddAngles(angle_array[rc_i + 1]))
    /\ rc_i' = rc_i + 1
    /\ UNCHANGED <<rc_pc, angles, angle_array>>

\* lines 45-48: the circuit is complete and handed to the simulator
RunCircuitSimulate ==
    /\ rc_pc = "build"
    /\ rc_i >= Len(angle_array)
    /\ rc_pc' = "simulated"
    /\ UNCHANGED <<angles, angle_array, rc_i, circuit>>

RC_Next ==
    \/ ObjectiveReshape /\ UNCHANGED <<gpVars, czVars, gsVars>>
    \/ RunCircuitLayer /\ UNCHANGED <<gpVars, czVars, gsVars>>
    \/ RunCircuitSimulate /\ UNCHANGED <<gpVars, czVars, gsVars>>

\* ================================================ CZ network of the even block
\* the qubit pairs of the CZ operations of one even block, in order
CZGates ==
    LET m == EvenBlockMoments(test_qubits, [i \in 1..4 |-> 0])
    IN  [k \in 1..(Len(m) - 1) |-> m[k + 1].ops[1].qubits]

Ones(bits) == Cardinality({j \in DOMAIN bits : bits[j] = 1})

CZ_Init ==
    /\ cz_bits \in [1..NumQubits -> {0, 1}]
    /\ cz_k = 0
    /\ cz_sign = 1
    \* GeneratePlot is not running
    /\ pc = "idle" /\ max_L = 0 /\ phi = 0 /\ L = 0 /\ r = 0 /\ opt_val = Inf
    /\ best_vals = <<>> /\ bounds = <<>> /\ start_angles = <<>> /\ results = {}
    /\ visited = <<>> /\ plot_x = <<>> /\ plot_y = <<>>
    \* RunCircuit is not running
    /\ rc_pc = "idle" /\ angles = <<>> /\ angle_array = <<>> /\ rc_i = 0
    /\ circuit = <<>>
    \* GridSearch is not running
    /\ gs_pc = "idle" /\ center_array = <<>> /\ width = 0 /\ resolution = 0
    /\ obj_target = 0 /\ gs_start = <<>> /\ gs_angles = <<>> /\ gs_opt_val = Inf
    /\ gs_best = <<>> /\ evaluated = {}

\* a CZ gate negates the amplitude of a basis state with both qubits 1
ApplyCZ ==
    /\ cz_k < Len(CZGates)
    /\ LET g == CZGates[cz_k + 1]
       IN  cz_sign' = IF cz_bits[g[1] + 1] = 1 /\ cz_bits[g[2] + 1] = 1
                      THEN -cz_sign ELSE cz_sign
    /\ cz_k' = cz_k + 1
    /\ UNCHANGED cz_bits

CZ_Next ==
    \/ ApplyCZ /\ UNCHANGED <<gpVars, rcVars, gsVars>>

\* ================================================================ GridSearch
\* Coordinates are stored doubled, so that center - width / 2 is an integer.
Num(x) == [num |-> TRUE, val |-> x]
List(l) == [num |-> FALSE, val |-> l]

\* angles[i] > start_angles[i] + width * 1.01 (line 71)
Exceeds(a, s) == 100 * a > 100 * s + 202 * width
\* angles[-1] < start_angles[-1] + width * 1.01 (line 63)
Below(a, s) == 100 * a < 100 * s + 202 * width

Abs(x) == IF x < 0 THEN -x ELSE x

RECURSIVE SumDist(_, _, _)
SumDist(p, t, i) == IF i > Len(p) THEN 0 ELSE Abs(p[i] - t) + SumDist(p, t, i + 1)

\* the callback Objective given to GridSearch: distance to obj_target
ObjectiveGS(p) == SumDist(p, 2 * obj_target, 1)

\* lines 70-77: the carry loop, from Python index i - 1 on
RECURSIVE Carry(_, _)
Carry(a, i) ==
    IF i > Len(a) THEN a
    ELSE IF Exceeds(a[i].val, gs_start[i])
         THEN IF i = Len(a) THEN a
              ELSE Carry([a EXCEPT ![i] = List(gs_start),
                                   ![i + 1] = Num(a[i + 1].val + 2 * resolution)],
                         i + 1)
         ELSE a

AllNumbers(a) == \A i \in DOMAIN a : a[i].num

GS_Init ==
    /\ gs_pc = "start"
    /\ center_array \in UNION {[1..n -> 0..MaxCenter] : n \in 1..MaxDim}
    /\ width \in 1..MaxWidth
    /\ resolution \in 1..MaxWidth
    /\ obj_target \in 0..MaxTarget
    /\ gs_start = <<>>
    /\ gs_angles = <<>>
    /\ gs_opt_val = Inf
    /\ gs_best = <<>>
    /\ evaluated = {}
    \* GeneratePlot is not running
    /\ pc = "idle" /\ max_L = 0 /\ phi = 0 /\ L = 0 /\ r = 0 /\ opt_val = Inf
    /\ best_vals = <<>> /\ bounds = <<>> /\ start_angles = <<>> /\ results = {}
    /\ visited = <<>> /\ plot_x = <<>> /\ plot_y = <<>>
    \* RunCircuit is not running
    /\ rc_pc = "idle" /\ angles = <<>> /\ angle_array = <<>> /\ rc_i = 0
    /\ circuit = <<>>
    \* the CZ network is not running
    /\ cz_bits = <<>> /\ cz_k = 6 /\ cz_sign = 1

\* lines 59-61
GridSetup ==
    /\ gs_pc = "start"
    /\ gs_start' = [i \in DOMAIN center_array |-> 2 * center_array[i] - width]
    /\ gs_angles' = [i \in DOMAIN center_array |-> Num(gs_start'[i])]
    /\ gs_opt_val' = Inf
    /\ gs_pc' = "while"
    /\ UNCHANGED <<center_array, width, resolution, obj_target, gs_best, evaluated>>

\* lines 63-77: one iteration of the while loop on a list of numbers
GridIterate ==
    /\ gs_pc = "while"
    /\ Below(gs_angles[Len(gs_angles)].val, gs_start[Len(gs_start)])
    /\ AllNumbers(gs_angles)
    /\ LET p == [i \in DOMAIN gs_angles |-> gs_angles[i].val]
           obj == ObjectiveGS(p)
       IN  /\ evaluated' = evaluated \cup {p}
           /\ gs_opt_val' = IF obj < gs_opt_val THEN obj ELSE gs_opt_val
           /\ gs_best' = IF obj < gs_opt_val THEN p ELSE gs_best
    /\ gs_angles' = Carry([gs_angles EXCEPT
                              ![1] = Num(gs_angles[1].val + 2 * resolution)], 1)
    /\ UNCHANGED <<gs_pc, center_array, width, resolution, obj_target, gs_start>>

\* lines 64 and 69 when angles[0] is a list: np.array of a ragged list or
\* "list += float" raises, and GridSearch returns nothing
GridRaise ==
    /\ gs_pc = "while"
    /\ Below(gs_angles[Len(gs_angles)].val, gs_start[Len(gs_start)])
    /\ ~AllNumbers(gs_angles)
    /\ gs_pc' = "raised"
    /\ UNCHANGED <<center_array, width, resolution, obj_target, gs_start,
                   gs_angles, gs_opt_val, gs_best, evaluated>>

\* line 78
GridReturn ==
    /\ gs_pc = "while"
    /\ ~Below(gs_angles[Len(gs_angles)].val, gs_start[Len(gs_start)])
    /\ gs_pc' = "returned"
    /\ UNCHANGED <<center_array, width, resolution, obj_target, gs_start,
                   gs_angles, gs_opt_val, gs_best, evaluated>>

GS_Next ==
    \/ GridSetup /\ UNCHANGED <<gpVars, rcVars, czVars>>
    \/ GridIterate /\ UNCHANGED <<gpVars, rcVars, czVars>>
    \/ GridRaise /\ UNCHANGED <<gpVars, rcVars, czVars>>
    \/ GridReturn /\ UNCHANGED <<gpVars, rcVars, czVars>>

\* ============================================================ specifications
GP_Spec == GP_Init /\ [][GP_Next]_vars
RC_Spec == RC_Init /\ [][RC_Next]_vars
CZ_Spec == CZ_Init /\ [][CZ_Next]_vars
GS_Spec == GS_Init /\ [][GS_Next]_vars

\* ==================================================================== claims
\* the results minimize returned for circuits of l layers, and their minimum
FunsOf(l) == {x.fun : x \in {y \in results : y.layers = l}}
MinFun(l) == IF FunsOf(l) = {} THEN Inf ELSE SeqMin(FunsOf(l))
Plotted == pc \in {"shown", "raised"}
InBody == pc \in {"for_r", "minimize"}

\* C1: for every max_L >= 1 the x-sequence and the y-sequence handed to
\* plt.plot have the same length, and the i-th y value is the best distance
\* found for circuits with exactly x[i] layers.  (max_L is the incremented
\* parameter here, so the argument was max_L - 1.)
C1_PlotAligned ==
    (Plotted /\ max_L - 1 >= 1) =>
        /\ Len(plot_x) = Len(plot_y)
        /\ \A i \in DOMAIN plot_x :
              /\ FunsOf(plot_x[i]) # {}
              /\ plot_y[i] = MinFun(plot_x[i])

\* C2: the value appended for a layer count is the minimum of opt.fun over
\* exactly 10 restarts done for that layer count; the running best starts at
\* infinity for each layer count, never increases across restarts, and holds
\* only results of circuits with that many layers.
C2_BestOfRestarts ==
    /\ [](InBody => opt_val = MinFun(L))
    /\ [](InBody /\ r = 0 => opt_val = Inf)
    /\ [](\A k \in DOMAIN best_vals : best_vals[k] = MinFun(visited[k]))
    /\ [][/\ (L' = L => opt_val' <= opt_val)
          /\ (best_vals' # best_vals =>
                 /\ r = NumRestarts
                 /\ Cardinality(FunsOf(L)) >= 1
                 /\ best_vals' = Append(best_vals, MinFun(L)))]_vars

C2_Witness ==
    /\ pc = "for_L"
    /\ Len(best_vals) >= 2
    /\ best_vals[1] # best_vals[2]
    /\ Cardinality(FunsOf(visited[1])) >= 2

\* C3: a flat vector of length 8L gives exactly L layers in row order; layer i
\* is rz(angles[8i+j]) on qubit j for j in 0..3, then the CZ gates, then
\* rx(angles[8i+4+j]) on qubit j for j in 0..3.
C3_PositionFaithful ==
    rc_pc \in {"build", "simulated"} =>
        /\ Len(circuit) = 8 * rc_i
        /\ (rc_pc = "simulated" => 8 * rc_i = Len(angles))
        /\ \A i \in 0..(rc_i - 1) :
              /\ circuit[8 * i + 1].type = "Moment"
              /\ Len(circuit[8 * i + 1].ops) = 4
              /\ \A j \in 0..3 :
                    circuit[8 * i + 1].ops[j + 1] =
                        [gate |-> "rz", params |-> <<angles[8 * i + j + 1]>>,
                         qubits |-> <<j>>]
              /\ \A k \in 2..7 :
                    /\ circuit[8 * i + k].type = "Operation"
                    /\ circuit[8 * i + k].ops[1].gate = "CZ"
              /\ circuit[8 * i + 8].type = "Moment"
              /\ Len(circuit[8 * i + 8].ops) = 4
              /\ \A j \in 0..3 :
                    circuit[8 * i + 8].ops[j + 1] =
                        [gate |-> "rx", params |-> <<angles[8 * i + 4 + j + 1]>>,
                         qubits |-> <<j>>]

C3_Witness ==
    /\ rc_pc = "simulated"
    /\ Len(angles) = 16
    /\ angles[14] # 0
    /\ angles[3] # 0
    /\ Len(circuit) = 16

\* C4: layer counts are visited in strictly increasing order, each once, with
\* exactly one value appended per visited layer count, and the plot is called
\* only after the last layer count has been optimized.
C4_IncreasingSweep ==
    /\ \A i \in DOMAIN visited : \A j \in DOMAIN visited :
          i < j => visited[i] < visited[j]
    /\ Len(best_vals) = Len(visited) - (IF InBody THEN 1 ELSE 0)
    /\ (plot_x # <<>> \/ plot_y # <<>> => Plotted)
    /\ (Plotted => /\ visited = Range(2, max_L)
                   /\ plot_y = best_vals
                   /\ Len(best_vals) = Len(visited)
                   /\ \A k \in DOMAIN visited : FunsOf(visited[k]) # {})

C4_Witness ==
    /\ Plotted
    /\ visited = <<2, 3>>
    /\ Len(best_vals) = 2

\* C5: at every call of minimize the bounds list and the start vector have
\* exactly 8*L entries, every bound is (0, 2*pi), and every component of the
\* start vector lies inside its bound.
C5_BoundedAngles ==
    pc = "minimize" =>
        /\ Len(bounds) = 8 * L
        /\ Len(start_angles) = 8 * L
        /\ \A i \in 1..(8 * L) :
              /\ bounds[i] = <<0, TwoPi>>
              /\ bounds[i][1] <= start_angles[i]
              /\ start_angles[i] <= bounds[i][2]

C5_Witness ==
    /\ pc = "minimize"
    /\ L = 3
    /\ r = NumRestarts - 1
    /\ \E i \in DOMAIN start_angles : start_angles[i] > 0

\* C6: the even block applies CZ to each of the 6 unordered pairs of the 4
\* qubits exactly once, so a basis state gets the sign -1 if and only if
\* exactly two or exactly three of its qubits are 1.
C6_PhaseFlip ==
    /\ Len(CZGates) = 6
    /\ {{CZGates[k][1], CZGates[k][2]} : k \in DOMAIN CZGates} =
          {{a, b} : a \in 0..3, b \in 0..3} \ {{a} : a \in 0..3}
    /\ (cz_bits # <<>> /\ cz_k = Len(CZGates) =>
           (cz_sign = -1 <=> Ones(cz_bits) \in {2, 3}))

C6_Witness ==
    /\ cz_bits = <<1, 0, 1, 1>>
    /\ cz_k = 6
    /\ cz_sign = -1

\* the grid described by the parameters of GridSearch (values doubled)
GridCoords(i) ==
    {gs_start[i] + 2 * k * resolution : k \in {m \in 0..width : m * resolution <= width}}
GridPoints ==
    {p \in [DOMAIN gs_start -> UNION {GridCoords(i) : i \in DOMAIN gs_start}] :
        \A i \in DOMAIN gs_start : p[i] \in GridCoords(i)}

\* C7: for every dimension n >= 1 GridSearch evaluates Objective at every
\* point of the grid and returns a grid point with the smallest objective
\* value over the grid together with that value.
C7_WholeGrid ==
    gs_pc \in {"returned", "raised"} =>
        /\ gs_pc = "returned"
        /\ evaluated = GridPoints
        /\ gs_best \in GridPoints
        /\ gs_opt_val = ObjectiveGS(gs_best)
        /\ \A p \in GridPoints : gs_opt_val <= ObjectiveGS(p)

\* C8: a carried coordinate is reset to its own start value, so every entry
\* of angles is a single number and every non-last coordinate i stays within
\* [start_angles[i], start_angles[i] + width*1.01 + resolution].
C8_CarryResets ==
    \A i \in DOMAIN gs_angles :
        /\ gs_angles[i].num
        /\ (i < Len(gs_angles) =>
               /\ gs_start[i] <= gs_angles[i].val
               /\ 100 * gs_angles[i].val <=
                     100 * gs_start[i] + 202 * width + 200 * resolution)

\* C9: the target state is chosen once, before the sweep, and is never
\* changed afterwards, so every result is a distance to the same target.
C9_TargetFixed ==
    /\ [](pc # "start" => phi \in 1..NumPhi)
    /\ [](\A x \in results : x.target = phi)
    /\ [][pc # "start" => phi' = phi]_vars

C9_Witness ==
    /\ Plotted
    /\ Len(best_vals) = 2
    /\ phi = 2
    /\ Cardinality(results) >= 4

====
